---- MODULE Spec2Model ----
(***************************************************************************)
(* fspath.py: the file system path protocol (FSPathABC) and the conversion *)
(* function fspath(path, *, type_constraint=str).                          *)
(*                                                                         *)
(* Python objects are references: a value is an address into Heap, and     *)
(* `a is b` is equality of addresses.  Several calls of fspath run as      *)
(* threads, one statement of the function body per step.                   *)
(***************************************************************************)
EXTENDS Integers, Sequences, FiniteSets, TLC

\* Number of threads calling fspath concurrently.
NumThreads == 2

Threads == 1..NumThreads

\* The value of a local variable that has not been assigned yet.
Unbound == 0

(***************************************************************************)
(* The classes of the objects handed to fspath, each with its direct       *)
(* bases.  PathStr is a subclass of str, ABCPath derives from FSPathABC,   *)
(* Path does not.                                                          *)
(***************************************************************************)
Bases ==
    [ str       |-> {},
      bytes     |-> {},
      int       |-> {},
      PathStr   |-> {"str"},
      FSPathABC |-> {},
      ABCPath   |-> {"FSPathABC"},
      Path      |-> {} ]

ClassNames == DOMAIN Bases

RECURSIVE IsSubclass(_, _)
\* issubclass(c, T): T is c or one of c's (transitive) bases.
IsSubclass(c, T) ==
    \/ c = T
    \/ \E b \in Bases[c] : IsSubclass(b, T)

(***************************************************************************)
(* The objects.  attr is what the attribute __fspath__ of the object is:   *)
(*   "absent"    no such attribute                                         *)
(*   "method"    a method of the class, returning the object at ret        *)
(*   "instance"  a callable stored on the instance, returning the object   *)
(*               at ret                                                    *)
(*   "abstract"  a method of the class that ends in FSPathABC.__fspath__   *)
(*               (through super()), which raises NotImplementedError       *)
(***************************************************************************)
Heap ==
    <<  [type |-> "str",     data |-> "a/b/c", attr |-> "absent",   ret |-> 0],
        [type |-> "PathStr", data |-> "x/y",   attr |-> "method",   ret |-> 1],
        [type |-> "bytes",   data |-> "x/y",   attr |-> "absent",   ret |-> 0],
        [type |-> "int",     data |-> "42",    attr |-> "absent",   ret |-> 0],
        [type |-> "Path",    data |-> "",      attr |-> "method",   ret |-> 2],
        [type |-> "ABCPath", data |-> "",      attr |-> "method",   ret |-> 2],
        [type |-> "Path",    data |-> "",      attr |-> "method",   ret |-> 4],
        [type |-> "Path",    data |-> "",      attr |-> "method",   ret |-> 3],
        [type |-> "ABCPath", data |-> "",      attr |-> "abstract", ret |-> 0],
        [type |-> "Path",    data |-> "",      attr |-> "instance", ret |-> 1]  >>

Values == DOMAIN Heap

\* The type constraints the callers pass (str is the default).
Constraints == {"str", "bytes"}

\* type(v).__name__
TypeOf(v) == IF v = Unbound THEN "unbound" ELSE Heap[v].type

\* isinstance(v, T)
IsInstance(v, T) == TypeOf(v) \in ClassNames /\ IsSubclass(TypeOf(v), T)

\* isinstance(v, FSPathABC)
DerivesFromABC(v) == IsInstance(v, "FSPathABC")

(***************************************************************************)
(* Outcomes of a call: a returned reference or a raised exception, with    *)
(* the line of fspath.py the call left through.  A message is the sequence *)
(* of the strings concatenated to build it.                                *)
(***************************************************************************)
NoOutcome == [kind |-> "none", value |-> 0, exc |-> "", msg |-> <<>>, line |-> 0]

Returned(v, ln) ==
    [kind |-> "return", value |-> v, exc |-> "", msg |-> <<>>, line |-> ln]

Raised(e, m, ln) ==
    [kind |-> "raise", value |-> 0, exc |-> e, msg |-> m, line |-> ln]

Msg30 == <<"path must implement __fspath__() or be an instance of type_constraint">>

Msg33Prefix == "__fspath__() must return a str or bytes, not "

(***************************************************************************)
(* The statements of fspath, as operators on references.                   *)
(***************************************************************************)

\* Line 27 with the probe replaced by a nominal check against FSPathABC.
HasAttrNominal(path) == IsInstance(path, "FSPathABC")

\* Line 27 with the attribute looked up on the class: hasattr(type(path), '__fspath__').
HasAttrOnType(path) == Heap[path].attr \in {"method", "abstract"}

\* Line 27: hasattr(path, '__fspath__').
HasAttr(path) == Heap[path].attr # "absent"

\* Line 25 with the capability probed before the instance check.
FastPathUnlessConvertible(path, T) == IsInstance(path, T) /\ Heap[path].attr = "absent"

\* Line 25 with the default str written in place of type_constraint.
FastPathStrOnly(path, T) == IsInstance(path, "str")

\* Line 25: isinstance(path, type_constraint).
FastPath(path, T) == IsInstance(path, T)

\* Line 28: the evaluation of path.__fspath__(), for a path that has the
\* attribute.  It returns what the method returns and raises what the
\* method raises (line 10).
Call(path) ==
    CASE Heap[path].attr \in {"method", "instance"} -> Returned(Heap[path].ret, 28)
      [] Heap[path].attr = "abstract" -> Raised("NotImplementedError", <<>>, 10)

\* Line 31 with the `not` left out.
ResultValidInverted(pathstring, T) == ~IsInstance(pathstring, T)

\* Line 31 with the types of the message written in place of type_constraint.
ResultValidStrOrBytes(pathstring, T) ==
    IsInstance(pathstring, "str") \/ IsInstance(pathstring, "bytes")

\* Line 31: isinstance(pathstring, type_constraint).
ResultValid(pathstring, T) == IsInstance(pathstring, T)

\* Line 32 with path written in place of pathstring.
TypeNameOfPath(path, pathstring) == TypeOf(path)

\* Line 32: type(pathstring).__name__.
TypeName(path, pathstring) == TypeOf(pathstring)

\* Line 34 with path written in place of pathstring.
ReturnPath(path, pathstring) == path

\* Line 34: return pathstring.
ReturnValue(path, pathstring) == pathstring

\* Lines 31-34: validation of the representation and the exit it leads to.
Validate(path, pathstring, T) ==
    IF ~ResultValid(pathstring, T)
    THEN Raised("TypeError", <<Msg33Prefix, TypeName(path, pathstring)>>, 33)
    ELSE Returned(ReturnValue(path, pathstring), 34)

\* Lines 25-34: one call of fspath run alone, from entry to exit.
Fspath(path, T) ==
    IF FastPath(path, T) THEN Returned(path, 26)
    ELSE IF ~HasAttr(path) THEN Raised("TypeError", Msg30, 30)
    ELSE LET r == Call(path)
         IN  IF r.kind = "raise" THEN r ELSE Validate(path, r.value, T)

(***************************************************************************)
(* The threads.  Each has its own frame: the parameters path and           *)
(* type_constraint, the local pathstring, and the position in the body.    *)
(* invocations counts the evaluations of path.__fspath__() in the current  *)
(* call; first keeps the outcome of the call whose result was passed back  *)
(* in.                                                                     *)
(***************************************************************************)
VARIABLES pc, path, tc, pathstring, outcome, invocations, first

vars == <<pc, path, tc, pathstring, outcome, invocations, first>>

\* The local pathstring with one module-level variable shared by all calls.
SlotShared(t) == 1

\* The local pathstring of thread t's frame.
SlotOf(t) == t

Init ==
    /\ pc = [t \in Threads |-> "idle"]
    /\ path = [t \in Threads |-> Unbound]
    /\ tc = [t \in Threads |-> "str"]
    /\ pathstring = [t \in Threads |-> Unbound]
    /\ outcome = [t \in Threads |-> NoOutcome]
    /\ invocations = [t \in Threads |-> 0]
    /\ first = [t \in Threads |-> NoOutcome]

\* The frame of a new call fspath(p, type_constraint=T) in thread t.
Enter(t, p, T) ==
    /\ pc' = [pc EXCEPT ![t] = "l25"]
    /\ path' = [path EXCEPT ![t] = p]
    /\ tc' = [tc EXCEPT ![t] = T]
    /\ pathstring' = [pathstring EXCEPT ![SlotOf(t)] = Unbound]
    /\ outcome' = [outcome EXCEPT ![t] = NoOutcome]
    /\ invocations' = [invocations EXCEPT ![t] = 0]

\* The call leaves the function with outcome o.
Exit(t, o) ==
    /\ pc' = [pc EXCEPT ![t] = "done"]
    /\ outcome' = [outcome EXCEPT ![t] = o]

\* Line 13: thread t calls fspath(p, type_constraint=T).
Start(t) ==
    /\ pc[t] = "idle"
    /\ \E p \in Values, T \in Constraints : Enter(t, p, T)
    /\ UNCHANGED first

\* Lines 25-26.
Check25(t) ==
    /\ pc[t] = "l25"
    /\ IF FastPath(path[t], tc[t])
       THEN Exit(t, Returned(path[t], 26))
       ELSE /\ pc' = [pc EXCEPT ![t] = "l27"]
            /\ UNCHANGED outcome
    /\ UNCHANGED <<path, tc, pathstring, invocations, first>>

\* Line 27 with the probe made by calling the method.
Probe27ByCalling(t) ==
    /\ pc[t] = "l27"
    /\ IF HasAttr(path[t])
       THEN /\ pc' = [pc EXCEPT ![t] = "l28"]
            /\ invocations' = [invocations EXCEPT ![t] = @ + 1]
            /\ UNCHANGED outcome
       ELSE /\ Exit(t, Raised("TypeError", Msg30, 30))
            /\ UNCHANGED invocations
    /\ UNCHANGED <<path, tc, pathstring, first>>

\* Lines 27, 29-30.
Probe27(t) ==
    /\ pc[t] = "l27"
    /\ IF HasAttr(path[t])
       THEN /\ pc' = [pc EXCEPT ![t] = "l28"]
            /\ UNCHANGED outcome
       ELSE Exit(t, Raised("TypeError", Msg30, 30))
    /\ UNCHANGED <<path, tc, pathstring, invocations, first>>

\* Line 28: pathstring = path.__fspath__(); an exception leaves the call.
Invoke28(t) ==
    /\ pc[t] = "l28"
    /\ invocations' = [invocations EXCEPT ![t] = @ + 1]
    /\ LET r == Call(path[t])
       IN  IF r.kind = "raise"
           THEN /\ Exit(t, r)
                /\ UNCHANGED pathstring
           ELSE /\ pathstring' = [pathstring EXCEPT ![SlotOf(t)] = r.value]
                /\ pc' = [pc EXCEPT ![t] = "l31"]
                /\ UNCHANGED outcome
    /\ UNCHANGED <<path, tc, first>>

\* Lines 31-34.
Validate31(t) ==
    /\ pc[t] = "l31"
    /\ Exit(t, Validate(path[t], pathstring[SlotOf(t)], tc[t]))
    /\ UNCHANGED <<path, tc, pathstring, invocations, first>>

\* The caller passes the value a call returned to fspath again, with the
\* same type_constraint: fspath(fspath(o, type_constraint=T), type_constraint=T).
Reapply(t) ==
    /\ pc[t] = "done"
    /\ outcome[t].kind = "return"
    /\ first[t] = NoOutcome
    /\ first' = [first EXCEPT ![t] = outcome[t]]
    /\ Enter(t, outcome[t].value, tc[t])

Next ==
    \E t \in Threads :
        \/ Start(t)
        \/ Check25(t)
        \/ Probe27(t)
        \/ Invoke28(t)
        \/ Validate31(t)
        \/ Reapply(t)

Spec == Init /\ [][Next]_vars

(***************************************************************************)
(* Vocabulary of the properties: facts about the objects and the callers,  *)
(* stated on Heap and not through the statements of fspath.                *)
(***************************************************************************)

\* The call of thread t has left fspath.
Done(t) == pc[t] = "done"

\* o has an attribute __fspath__.
Exposes(o) == Heap[o].attr # "absent"

\* o.__fspath__() returns an object.
Converts(o) == Heap[o].attr \in {"method", "instance"}

\* The object o.__fspath__() returns, for an o that converts.
Representation(o) == Heap[o].ret

\* o.__fspath__() returns the object r.
Produces(o, r) == Converts(o) /\ Representation(o) = r

\* o.__fspath__() raises.
Fails(o) == Heap[o].attr = "abstract"

\* The call of thread t ended in a TypeError raised by fspath itself.
OwnTypeError(t) ==
    /\ outcome[t].kind = "raise"
    /\ outcome[t].exc = "TypeError"
    /\ outcome[t].line \in {30, 33}

\* Neither the type nor the capability.
CapabilityAbsent(o, T) == ~IsInstance(o, T) /\ ~Exposes(o)

\* The capability, whose result fails the constraint.
ResultFailsConstraint(o, T) ==
    /\ ~IsInstance(o, T)
    /\ Converts(o)
    /\ ~IsInstance(Representation(o), T)

(***************************************************************************)
(* C1  Fast path: a path that is an instance of type_constraint (of the    *)
(* type or of a subtype) is returned itself, the same object, and its      *)
(* __fspath__ is not invoked even when it has one.                         *)
(***************************************************************************)
C1_FastPathIdentity ==
    \A t \in Threads :
        (Done(t) /\ IsInstance(path[t], tc[t])) =>
            /\ outcome[t].kind = "return"
            /\ outcome[t].value = path[t]
            /\ invocations[t] = 0

\* A str-subclass instance that has __fspath__ went through under str, and a
\* bytes object under bytes.
C1_Witness ==
    \E t, u \in Threads :
        /\ Done(t) /\ tc[t] = "str" /\ Heap[path[t]].type = "PathStr"
        /\ Exposes(path[t]) /\ outcome[t].value = path[t]
        /\ Done(u) /\ tc[u] = "bytes" /\ Heap[path[u]].type = "bytes"
        /\ outcome[u].value = path[u]

(***************************************************************************)
(* C2  Success postcondition: every value a call returns, through either   *)
(* return, is an instance of the call's type_constraint.                   *)
(***************************************************************************)
C2_ReturnSatisfiesConstraint ==
    \A t \in Threads :
        (Done(t) /\ outcome[t].kind = "return") =>
            IsInstance(outcome[t].value, tc[t])

\* One call returned at line 26 and another at line 34.
C2_Witness ==
    \E t, u \in Threads :
        /\ Done(t) /\ outcome[t].kind = "return" /\ outcome[t].line = 26
        /\ Done(u) /\ outcome[u].kind = "return" /\ outcome[u].line = 34

(***************************************************************************)
(* C3  Capability dispatch: for a path that is no instance of              *)
(* type_constraint and whose __fspath__() returns s, an instance of        *)
(* type_constraint, the call returns that s.                               *)
(***************************************************************************)
C3_DispatchReturnsResult ==
    \A t \in Threads :
        (/\ Done(t)
         /\ ~IsInstance(path[t], tc[t])
         /\ Converts(path[t])
         /\ IsInstance(Representation(path[t]), tc[t])) =>
            /\ outcome[t].kind = "return"
            /\ outcome[t].value = Representation(path[t])

\* An object whose __fspath__() returns "x/y" was converted under str.
C3_Witness ==
    \E t \in Threads : \E s \in Values :
        /\ Done(t) /\ tc[t] = "str"
        /\ ~IsInstance(path[t], "str")
        /\ Produces(path[t], s) /\ Heap[s].data = "x/y"
        /\ outcome[t].value = s

C5_InvalidResultRaises ==
    \A t \in Threads :
        (/\ Done(t)
         /\ ~IsInstance(path[t], tc[t])
         /\ Converts(path[t])
         /\ ~IsInstance(Representation(path[t]), tc[t])) =>
            /\ outcome[t].kind = "raise"
            /\ outcome[t].exc = "TypeError"
            /\ Len(outcome[t].msg) > 0
            /\ outcome[t].msg[Len(outcome[t].msg)] = Heap[Representation(path[t])].type

\* __fspath__() returned the int 42 and the message ends in "int".
C5_Witness ==
    \E t \in Threads : \E r \in Values :
        /\ Done(t) /\ Produces(path[t], r) /\ Heap[r].data = "42"
        /\ outcome[t].kind = "raise"
        /\ outcome[t].msg = <<Msg33Prefix, "int">>

(***************************************************************************)
(* C6  Idempotence: passing the value a call returned to fspath again,     *)
(* with the same type_constraint, returns that very object (hence a value  *)
(* equal to it), through the fast path.                                    *)
(***************************************************************************)
C6_Idempotent ==
    \A t \in Threads :
        (Done(t) /\ first[t] # NoOutcome) =>
            /\ outcome[t].kind = "return"
            /\ outcome[t].value = first[t].value
            /\ outcome[t].line = 26
            /\ invocations[t] = 0

\* The first call converted an object through __fspath__, the second is over.
C6_Witness ==
    \E t \in Threads :
        /\ Done(t) /\ first[t].kind = "return" /\ first[t].line = 34
        /\ outcome[t].kind = "return"

(***************************************************************************)
(* C7 as stated  Every call ends in a returned value that satisfies        *)
(* type_constraint or in a TypeError, raised under one of the two          *)
(* conditions (capability absent, result failing the constraint); no other *)
(* kind of error reaches the caller.                                       *)
(***************************************************************************)
C7_OnlyTypeError ==
    \A t \in Threads :
        Done(t) =>
            \/ /\ outcome[t].kind = "return"
               /\ IsInstance(outcome[t].value, tc[t])
            \/ /\ outcome[t].kind = "raise"
               /\ outcome[t].exc = "TypeError"
               /\ \/ CapabilityAbsent(path[t], tc[t])
                  \/ ResultFailsConstraint(path[t], tc[t])

(***************************************************************************)
(* C7 amended  Every call ends in exactly one of three outcomes: a         *)
(* returned value that satisfies type_constraint; a TypeError raised by    *)
(* fspath itself, which happens exactly under the two conditions; or the   *)
(* exception that path.__fspath__() raised, of whatever kind, propagated   *)
(* unchanged.                                                              *)
(***************************************************************************)
C7_OutcomeKinds ==
    \A t \in Threads :
        Done(t) =>
            LET ok    == /\ outcome[t].kind = "return"
                         /\ IsInstance(outcome[t].value, tc[t])
                own   == OwnTypeError(t)
                theirs == /\ ~IsInstance(path[t], tc[t])
                          /\ Fails(path[t])
                          /\ outcome[t] = Raised("NotImplementedError", <<>>, 10)
            IN  /\ ok \/ own \/ theirs
                /\ ~(ok /\ own) /\ ~(ok /\ theirs) /\ ~(own /\ theirs)
                /\ own <=> \/ CapabilityAbsent(path[t], tc[t])
                           \/ ResultFailsConstraint(path[t], tc[t])

\* One call ended in the NotImplementedError of the abstract method and
\* another in a TypeError of fspath.
C7_Witness ==
    \E t, u \in Threads :
        /\ Done(t) /\ outcome[t].exc = "NotImplementedError"
        /\ Done(u) /\ OwnTypeError(u)

\* p and q agree on being an instance of T, on having __fspath__, and on
\* what __fspath__() returns or raises.
Agree(p, q, T) ==
    /\ IsInstance(p, T) <=> IsInstance(q, T)
    /\ Exposes(p) <=> Exposes(q)
    /\ Fails(p) <=> Fails(q)
    /\ Converts(p) <=> Converts(q)
    /\ Converts(p) => Representation(p) = Representation(q)

(***************************************************************************)
(* C8  Structural conformance: two calls with the same type_constraint     *)
(* whose paths agree on being an instance of it, on having __fspath__ and  *)
(* on what __fspath__() gives end alike, whether or not either path        *)
(* derives from FSPathABC: each returns its own path when the paths are    *)
(* instances of type_constraint, and otherwise the two outcomes are the    *)
(* same.  An object that has __fspath__ and does not derive from FSPathABC *)
(* is converted.                                                           *)
(***************************************************************************)
C8_StructuralNotNominal ==
    /\ \A t, u \in Threads :
        (/\ Done(t) /\ Done(u)
         /\ tc[t] = tc[u]
         /\ Agree(path[t], path[u], tc[t])) =>
            IF IsInstance(path[t], tc[t])
            THEN /\ outcome[t] = Returned(path[t], 26)
                 /\ outcome[u] = Returned(path[u], 26)
            ELSE outcome[t] = outcome[u]
    /\ \A t \in Threads :
        (/\ Done(t)
         /\ ~DerivesFromABC(path[t])
         /\ ~IsInstance(path[t], tc[t])
         /\ Converts(path[t])
         /\ IsInstance(Representation(path[t]), tc[t])) =>
            outcome[t] = Returned(Representation(path[t]), 34)

\* Two objects returning the same str, one deriving from FSPathABC and one
\* not, were both converted.
C8_Witness ==
    \E t, u \in Threads :
        /\ Done(t) /\ Done(u) /\ tc[t] = tc[u]
        /\ DerivesFromABC(path[t]) /\ ~DerivesFromABC(path[u])
        /\ ~IsInstance(path[t], tc[t])
        /\ Agree(path[t], path[u], tc[t])
        /\ outcome[t].kind = "return" /\ outcome[u] = outcome[t]

(***************************************************************************)
(* C9  Concurrency: under every interleaving of the statements of          *)
(* concurrent calls, each call ends as it would have run alone on its      *)
(* arguments, and the representation a call validates is the one its own   *)
(* path produced.                                                          *)
(***************************************************************************)
C9_InterleavingTransparent ==
    \A t \in Threads :
        /\ Done(t) => outcome[t] = Fspath(path[t], tc[t])
        /\ pc[t] = "l31" => Produces(path[t], pathstring[t])

\* Two calls are between invocation and validation at once, holding
\* representations of different types.
C9_Witness ==
    \E t, u \in Threads :
        /\ pc[t] = "l31" /\ pc[u] = "l31"
        /\ TypeOf(pathstring[t]) # TypeOf(pathstring[u])
        /\ tc[t] = tc[u]

\* The evaluations of path.__fspath__() a call has made, by position.
InvocationCount ==
    \A t \in Threads :
        /\ invocations[t] <= 1
        /\ pc[t] \in {"l25", "l27", "l28"} => invocations[t] = 0
        /\ pc[t] = "l31" => invocations[t] = 1
        /\ Done(t) =>
            invocations[t] =
                IF ~IsInstance(path[t], tc[t]) /\ Exposes(path[t]) THEN 1 ELSE 0

\* A call in progress assigns neither of its parameters.
ParametersKept ==
    \A t \in Threads :
        (pc[t] \notin {"idle", "done"}) =>
            /\ path'[t] = path[t]
            /\ tc'[t] = tc[t]

(***************************************************************************)
(* C10  Frame: a call evaluates path.__fspath__() at most once: once when  *)
(* path is no instance of type_constraint and has __fspath__, before the   *)
(* result is validated and also when the call then raises; never on the    *)
(* fast path or when the capability is absent.  A call assigns neither     *)
(* path nor type_constraint.                                               *)
(***************************************************************************)
C10_InvokedAtMostOnce == []InvocationCount /\ [][ParametersKept]_vars

\* A call invoked __fspath__ once and then raised the TypeError of line 33.
C10_Witness ==
    \E t \in Threads :
        /\ Done(t) /\ outcome[t].line = 33
        /\ invocations[t] = 1

====
